---- MODULE Spec2Model ----
(***************************************************************************)
(* Token lifecycle of the AliExpress OAuth integration                     *)
(* (server/aliexpress/auth.py, server/aliexpress/utils.py,                 *)
(* server/aliexpress/routes.py, server/aliexpress_oauth.py).               *)
(*                                                                         *)
(* Time is counted in seconds.  A Python dict is a function from the field *)
(* names to JSON values; a key that is not in the dict maps to Absent.     *)
(* The token file holds JSON text, modelled as a sequence of tokens.       *)
(***************************************************************************)
EXTENDS Integers, Sequences, FiniteSets, TLC

\* ------------------------------------------------------------------ bounds

\* Number of minutes the clock may advance.
Horizon == 6

\* How many times one concurrent writer saves the file.
MaxWrites == 2

\* ------------------------------------------------------- program constants

\* timedelta(minutes=5): the safety margin of is_token_valid.
MarginMinutes == 5

\* token_data.get("expires_in", 3600): the default of the async paths.
DefaultExpiresIn == 3600

SecondsPerMinute == 60 * 1

Margin == MarginMinutes * SecondsPerMinute

\* The UTC instant at which the model starts (one hour after the epoch, so that
\* local times west of UTC stay non-negative).
Epoch0 == 60 * SecondsPerMinute

\* The host's local-time offsets from UTC: datetime.now() - datetime.utcnow().
TzOffsets == {0 - 60 * SecondsPerMinute, 0, 60 * SecondsPerMinute}

\* The time that may pass between two clock reads of one handler.
Drift == {0, 1}

\* ------------------------------------------------------------- JSON values

Absent == [t |-> "absent", s |-> "", n |-> 0]

Null == [t |-> "null", s |-> "", n |-> 0]

Str(x) == [t |-> "str", s |-> x, n |-> 0]

Num(k) == [t |-> "int", s |-> "", n |-> k]

\* A str holding an ISO-8601 timestamp; n holds its digits (see isoformat).
IsoStr(digits) == [t |-> "str", s |-> "iso", n |-> digits]

\* Python truthiness of dict.get(key): None, "" and 0 are falsy.
Truthy(v) ==
    /\ v.t \notin {"absent", "null"}
    /\ ~(v.t = "str" /\ v.s = "")
    /\ ~(v.t = "int" /\ v.n = 0)

\* ------------------------------------------------------------ Python dicts

Fields ==
    << "access_token", "refresh_token", "token_type", "scope", "expires_in",
       "error", "error_description", "obtained_at", "expires_at" >>

FieldSet == {Fields[i] : i \in 1..Len(Fields)}

EmptyDict == [f \in FieldSet |-> Absent]

\* key in d
Has(d, key) == d[key].t # "absent"

\* d.get(key): None when the key is missing
Get(d, key) == IF Has(d, key) THEN d[key] ELSE Null

\* d.get(key, default)
GetOr(d, key, default) == IF Has(d, key) THEN d[key] ELSE default

\* d[key] = value
Put(d, key, value) == [d EXCEPT ![key] = value]

\* ----------------------------------------------------------------- datetime

\* datetime.isoformat(): the instant rendered in sexagesimal fields; the digits
\* MM SS are kept as the decimal number MM*100 + SS.
isoformat(t) == IsoStr((t \div SecondsPerMinute) * 100 + (t % SecondsPerMinute))

\* datetime.fromisoformat(v) raises on a non-string and on a malformed string.
fromisoformat_raises(v) ==
    \/ v.t # "str"
    \/ v.s # "iso"
    \/ v.n % 100 >= SecondsPerMinute

fromisoformat(v) == (v.n \div 100) * SecondsPerMinute + (v.n % 100)

\* int(v) raises on None and on a non-numeric string.
int_raises(v) == v.t # "int"

int(v) == v.n

\* ---------------------------------------------------------------- JSON text

\* The text of a JSON object: an opening brace, one token per member, a closing
\* brace.  The empty sequence is an empty (truncated) file.
Tok(key, value) == [k |-> key, v |-> value]

PresentKeys(d) == SelectSeq(Fields, LAMBDA f : Has(d, f))

\* json.dump(d, f, indent=2): the members of d, in order.
json_dump(d) ==
    LET keys == PresentKeys(d)
    IN  << Tok("{", Absent) >>
            \o [i \in 1..Len(keys) |-> Tok(keys[i], d[keys[i]])]
            \o << Tok("}", Absent) >>

\* Text that is no JSON document, as an outside writer may leave it.
GarbageText == << Tok("{", Absent), Tok("access_token", Str("tokA")) >>

\* json.load(f) raises JSONDecodeError on text that is no JSON document.
json_load_raises(text) ==
    \/ Len(text) < 2
    \/ text[1].k # "{"
    \/ text[Len(text)].k # "}"
    \/ \E i \in 2..(Len(text) - 1) : text[i].k \notin FieldSet

json_load(text) ==
    [f \in FieldSet |->
        IF \E i \in 2..(Len(text) - 1) : text[i].k = f
        THEN text[CHOOSE i \in 2..(Len(text) - 1) : text[i].k = f].v
        ELSE Absent]

\* ----------------------------------------------------------- the token file

\* external_scrapers/aliexpress_token.json
NoFile == [exists |-> FALSE, readable |-> FALSE, text |-> << >>]

FileOf(txt) == [exists |-> TRUE, readable |-> TRUE, text |-> txt]

UnreadableFile == [exists |-> TRUE, readable |-> FALSE, text |-> << >>]

\* What the storage does to one write: "ok", open() raises, or the write raises
\* after open() has truncated the file.
IoOutcomes == {"ok", "open_fails", "write_fails"}

\* Optional[Dict]: a returned dict, None, or a raised exception.
Some(d) == [raised |-> FALSE, some |-> TRUE, d |-> d]

None == [raised |-> FALSE, some |-> FALSE, d |-> EmptyDict]

Raised == [raised |-> TRUE, some |-> FALSE, d |-> EmptyDict]

\* with open(token_file, 'r') as f: json.load(f)
read_raises(file) == ~file.readable \/ json_load_raises(file.text)

\* with open(token_file, 'w') as f: json.dump(token_data, f, indent=2)
\* open(..., 'w') truncates the file; the text reaches it when the file is closed.
open_w(file) == FileOf(<< >>)

\* Closing the file writes the buffered text at offset 0, over what is there.
close_w(file, text) ==
    FileOf(text \o SubSeq(file.text, Len(text) + 1, Len(file.text)))

write_text(file, d, io) ==
    IF io = "open_fails" THEN [file |-> file, raised |-> TRUE]
    ELSE IF io = "write_fails" THEN [file |-> open_w(file), raised |-> TRUE]
    ELSE [file |-> close_w(open_w(file), json_dump(d)), raised |-> FALSE]

\* A save that returns without writing.
save_token_skip(file, d, io) == [file |-> file, raised |-> FALSE]

\* TokenStorage.save_token: logs and re-raises.
save_token(file, d, io) == write_text(file, d, io)

\* A save that keeps the fields of the stored record that d does not have.
save_token_to_file_merge(file, d, io) ==
    LET prior == IF read_raises(file) THEN EmptyDict ELSE json_load(file.text)
    IN  write_text(file, [f \in FieldSet |-> IF Has(d, f) THEN d[f] ELSE prior[f]], io)

\* utils.save_token_to_file: logs and re-raises.
save_token_to_file(file, d, io) == write_text(file, d, io)

\* aliexpress_oauth.save_token: logs and swallows the exception.
oauth_save_token(file, d, io) ==
    [file |-> write_text(file, d, io).file, raised |-> FALSE]

\* ------------------------------------------------------------ is_token_valid

\* The validity check with the boundary instant accepted (<= for <).
is_token_valid_le(tok, utcnow) ==
    IF ~tok.some \/ ~Has(tok.d, "access_token") THEN FALSE
    ELSE IF Has(tok.d, "expires_at")
         THEN IF fromisoformat_raises(tok.d["expires_at"]) THEN FALSE
              ELSE utcnow <= fromisoformat(tok.d["expires_at"]) - Margin
         ELSE TRUE

\* utils.is_token_valid(token_data) at the UTC instant utcnow.
is_token_valid(tok, utcnow) ==
    IF ~tok.some \/ ~Has(tok.d, "access_token") THEN FALSE
    ELSE IF Has(tok.d, "expires_at")
         THEN IF fromisoformat_raises(tok.d["expires_at"]) THEN FALSE
              ELSE utcnow < fromisoformat(tok.d["expires_at"]) - Margin
         ELSE TRUE

\* The same with the comparison turned round: valid from the margin on.
TokenStorage_is_token_valid_after(tok, utcnow) ==
    IF ~tok.some \/ ~Has(tok.d, "access_token") THEN FALSE
    ELSE IF Has(tok.d, "expires_at")
         THEN IF fromisoformat_raises(tok.d["expires_at"]) THEN FALSE
              ELSE utcnow > fromisoformat(tok.d["expires_at"]) - Margin
         ELSE TRUE

\* auth.TokenStorage.is_token_valid
TokenStorage_is_token_valid(tok, utcnow) ==
    IF ~tok.some \/ ~Has(tok.d, "access_token") THEN FALSE
    ELSE IF Has(tok.d, "expires_at")
         THEN IF fromisoformat_raises(tok.d["expires_at"]) THEN FALSE
              ELSE utcnow < fromisoformat(tok.d["expires_at"]) - Margin
         ELSE TRUE

\* aliexpress_oauth.is_token_valid
oauth_is_token_valid(tok, utcnow) ==
    IF ~tok.some \/ ~Has(tok.d, "access_token") THEN FALSE
    ELSE IF Has(tok.d, "expires_at")
         THEN IF fromisoformat_raises(tok.d["expires_at"]) THEN FALSE
              ELSE utcnow < fromisoformat(tok.d["expires_at"]) - Margin
         ELSE TRUE

\* --------------------------------------------------------------------- reads

\* A load without the try/except: a read or parse error propagates.
load_token_nocatch(file) ==
    IF ~file.exists THEN None
    ELSE IF read_raises(file) THEN Raised
    ELSE Some(json_load(file.text))

\* auth.TokenStorage.load_token: the parsed file, None when it is missing or
\* when reading or parsing raised.
load_token(file) ==
    IF file.exists /\ ~read_raises(file) THEN Some(json_load(file.text)) ELSE None

\* A load that returns the parsed file without checking its validity.
load_token_from_file_unchecked(file, utcnow) ==
    IF file.exists /\ ~read_raises(file) THEN Some(json_load(file.text)) ELSE None

\* utils.load_token_from_file: the parsed file if is_token_valid accepts it.
load_token_from_file(file, utcnow) ==
    IF file.exists /\ ~read_raises(file)
            /\ is_token_valid(Some(json_load(file.text)), utcnow)
    THEN Some(json_load(file.text))
    ELSE None

\* aliexpress_oauth.load_token: the same, with its own is_token_valid.
oauth_load_token(file, utcnow) ==
    IF file.exists /\ ~read_raises(file)
            /\ oauth_is_token_valid(Some(json_load(file.text)), utcnow)
    THEN Some(json_load(file.text))
    ELSE None

\* auth.get_access_token: Optional[str], as a JSON value (Null for None).
\* An exception of load_token would propagate: the function has no try.
get_access_token(file, utcnow) ==
    LET token_data == load_token(file)
    IN  IF token_data.raised THEN [raised |-> TRUE, v |-> Null]
        ELSE IF token_data.some /\ TokenStorage_is_token_valid(token_data, utcnow)
        THEN [raised |-> FALSE, v |-> Get(token_data.d, "access_token")]
        ELSE [raised |-> FALSE, v |-> Null]

\* auth.get_token_status: the fields of the returned dict the callers read.
\* An exception of load_token is caught and reported in the returned dict.
get_token_status(file, utcnow) ==
    LET token_data == load_token(file)
    IN  IF token_data.raised
        THEN [raised |-> FALSE, has_token |-> FALSE, authenticated |-> FALSE,
              message |-> "Failed to check token status"]
        ELSE IF ~token_data.some \/ token_data.d = EmptyDict
        THEN [raised |-> FALSE, has_token |-> FALSE, authenticated |-> FALSE,
              message |-> "No token found"]
        ELSE LET is_valid == TokenStorage_is_token_valid(token_data, utcnow)
             IN  [raised |-> FALSE, has_token |-> TRUE, authenticated |-> is_valid,
                  message |-> IF is_valid THEN "Token is valid"
                              ELSE "Token is expired or invalid"]

\* ------------------------------------------------------ the token endpoint

\* What one POST to ALIEXPRESS_TOKEN_URL ends with: a timeout, another
\* transport failure, or an HTTP response whose body is a JSON object, a JSON
\* array or no JSON at all.
Timeout == [kind |-> "timeout", status |-> 0, json |-> "invalid", body |-> EmptyDict]

\* No request reached the endpoint.
Unasked == [kind |-> "unasked", status |-> 0, json |-> "invalid", body |-> EmptyDict]

NetErr == [kind |-> "neterr", status |-> 0, json |-> "invalid", body |-> EmptyDict]

Http(code, form, d) == [kind |-> "http", status |-> code, json |-> form, body |-> d]

Body(access, refresh, expires, err) ==
    [EmptyDict EXCEPT !["access_token"] = access, !["refresh_token"] = refresh,
                      !["expires_in"] = expires, !["error"] = err]

\* The expires_in the provider reports: ten minutes.
LongLife == 10 * SecondsPerMinute

GoodBodies ==
    { Body(Str("tokA"), Str("r1"), Num(LongLife), Absent),
      Body(Str("tokB"), Absent, Num(LongLife), Absent),
      Body(Str("tokA"), Absent, Absent, Absent) }

OddBodies ==
    { Body(Str(""), Absent, Num(LongLife), Absent),
      Body(Null, Absent, Absent, Absent),
      Body(Str("tokA"), Absent, Str("soon"), Absent) }

RejectBodies ==
    { Body(Absent, Absent, Absent, Str("invalid_grant")),
      [Body(Absent, Absent, Absent, Str("invalid_grant"))
          EXCEPT !["error_description"] = Str("code expired")],
      EmptyDict }

Responses ==
    {Timeout, NetErr}
        \cup {Http(200, "object", b) : b \in GoodBodies \cup OddBodies \cup RejectBodies}
        \cup {Http(200, "invalid", EmptyDict), Http(200, "array", EmptyDict)}
        \cup {Http(500, "invalid", EmptyDict), Http(500, "array", EmptyDict),
              Http(500, "object", Body(Absent, Absent, Absent, Str("server_error")))}

\* The body parses as JSON.
IsJson(resp) == resp.json \in {"object", "array"}

\* A body that is no JSON, as the requests library reports it when it is built
\* on simplejson: the decode error is then no json.JSONDecodeError; it is a
\* RequestException from requests 2.27 on ("invalid_rq") and a plain ValueError
\* before ("invalid_sj").
RequestsResponses ==
    Responses \cup {Http(st, form, EmptyDict) :
                        st \in {200, 500}, form \in {"invalid_rq", "invalid_sj"}}

\* A non-200 answer whose content-type is application/json and whose body is
\* no JSON ("invalid" stands for such a body under another content-type).
HttpxResponses == Responses \cup {Http(500, "invalid_ctjson", EmptyDict)}

\* The response is a 200 whose body is a JSON object with an access_token member.
Grants(resp) ==
    /\ resp.kind = "http"
    /\ resp.status = 200
    /\ resp.json = "object"
    /\ Has(resp.body, "access_token")

\* The response may lead to a write of the token file.
MayWrite(resp) == resp.kind = "http" /\ resp.status = 200 /\ resp.json = "object"

\* The storage outcomes and clock drifts that can make a difference to a call
\* that gets resp.
IoFor(resp) == IF MayWrite(resp) THEN IoOutcomes ELSE {"ok"}

DriftFor(resp) ==
    IF MayWrite(resp) /\ Has(resp.body, "expires_in") THEN Drift ELSE {0}

\* The authorization codes and refresh tokens a caller passes: None, "", a value.
Codes == {Null, Str(""), Str("code1")}

\* --------------------------------------------------------- what a call returns

\* out names the return or raise statement the call ended at; status is the
\* HTTP status it carries (0 for none); ret the dict it returns; posts the
\* number of requests it sent to the token endpoint.
\* detail is the variable part of the message (Absent when it has none).
OutD(f, o, st, r, n, exc, d) ==
    [file |-> f, res |-> [out |-> o, status |-> st, ret |-> r, posts |-> n,
                          raised |-> exc, detail |-> d]]

Out(f, o, st, r, n, exc) == OutD(f, o, st, r, n, exc, Absent)

NoCall == [out |-> "none", status |-> 0, ret |-> EmptyDict, posts |-> 0, raised |-> FALSE,
           detail |-> Absent]

\* A message that names the error code even when a description is there.
error_msg_code_only(response_data) == Get(response_data, "error")

\* response_data.get('error_description', response_data.get('error', ...))
error_msg(response_data) ==
    GetOr(response_data, "error_description", Get(response_data, "error"))

\* The text after "HTTP <status>" in the message of an HTTP error.
http_error_msg(resp) ==
    IF resp.json = "object" /\ Has(resp.body, "error") THEN error_msg(resp.body) ELSE Absent

\* A stamp whose expires_at is the time of the clock read alone.
stamp_no_lifetime(response_data, utcnow, delta) ==
    LET stamped == Put(response_data, "obtained_at", isoformat(utcnow))
    IN  IF Has(response_data, "expires_in")
        THEN Put(stamped, "expires_at", isoformat(utcnow + delta))
        ELSE stamped

\* response_data with obtained_at and, if expires_in is there, expires_at added
\* (two reads of datetime.utcnow(), delta apart).
stamp(response_data, utcnow, delta) ==
    LET stamped == Put(response_data, "obtained_at", isoformat(utcnow))
    IN  IF Has(response_data, "expires_in")
        THEN Put(stamped, "expires_at",
                 isoformat(utcnow + delta + int(response_data["expires_in"])))
        ELSE stamped

\* The dict the synchronous exchange returns on success.
exchange_result(response_data) ==
    [EmptyDict EXCEPT
        !["access_token"] = response_data["access_token"],
        !["token_type"] = GetOr(response_data, "token_type", Str("Bearer")),
        !["expires_in"] = Get(response_data, "expires_in"),
        !["refresh_token"] = Get(response_data, "refresh_token"),
        !["obtained_at"] = response_data["obtained_at"],
        !["expires_at"] = Get(response_data, "expires_at")]

\* enhanced_token_data of the async paths (datetime.now(), the local time).
enhanced_token_data(token_data, localnow, delta) ==
    [EmptyDict EXCEPT
        !["access_token"] = Get(token_data, "access_token"),
        !["refresh_token"] = Get(token_data, "refresh_token"),
        !["expires_in"] = Get(token_data, "expires_in"),
        !["token_type"] = GetOr(token_data, "token_type", Str("bearer")),
        !["scope"] = Get(token_data, "scope"),
        !["obtained_at"] = isoformat(localnow),
        !["expires_at"] =
            IF Truthy(Get(token_data, "expires_in"))
            THEN isoformat(localnow + delta
                    + int(GetOr(token_data, "expires_in", Num(DefaultExpiresIn))))
            ELSE Null]

\* Building enhanced_token_data raises: int() of a truthy non-number.
enhanced_raises(token_data) ==
    /\ Truthy(Get(token_data, "expires_in"))
    /\ int_raises(GetOr(token_data, "expires_in", Num(DefaultExpiresIn)))

\* ------------------------------------------------------------------ exchange

\* auth.exchange_code_for_token
exchange_code_for_token(code, resp, file, utcnow, delta, io) ==
    IF ~Truthy(code) THEN Out(file, "code_required", 0, EmptyDict, 0, FALSE)
    ELSE IF resp.kind = "timeout" THEN Out(file, "timeout", 0, EmptyDict, 1, FALSE)
    ELSE IF resp.kind = "neterr" THEN Out(file, "request_failed", 0, EmptyDict, 1, FALSE)
    ELSE IF resp.json = "invalid" THEN Out(file, "invalid_json", 0, EmptyDict, 1, FALSE)
    ELSE IF resp.json = "invalid_rq" THEN Out(file, "request_failed", 0, EmptyDict, 1, FALSE)
    ELSE IF ~IsJson(resp) THEN Out(file, "unexpected", 0, EmptyDict, 1, FALSE)
    ELSE IF resp.status = 200
    THEN IF resp.json = "object" /\ Has(resp.body, "access_token")
         THEN IF Has(resp.body, "expires_in") /\ int_raises(resp.body["expires_in"])
              THEN Out(file, "unexpected", 0, EmptyDict, 1, FALSE)
              ELSE LET response_data == stamp(resp.body, utcnow, delta)
                       saved == save_token(file, response_data, io)
                   IN  IF saved.raised
                       THEN Out(saved.file, "unexpected", 0, EmptyDict, 1, FALSE)
                       ELSE Out(saved.file, "success", 0,
                                exchange_result(response_data), 1, FALSE)
         ELSE IF resp.json = "object" /\ Has(resp.body, "error")
              THEN OutD(file, "oauth_error", 0, EmptyDict, 1, FALSE, error_msg(resp.body))
              ELSE Out(file, "no_access_token", 0, EmptyDict, 1, FALSE)
    ELSE OutD(file, "http_error", resp.status, EmptyDict, 1, FALSE, http_error_msg(resp))

\* aliexpress_oauth.exchange_code_for_token: the same flow, saving with the
\* save_token that swallows a failed write.
oauth_exchange_code_for_token(code, resp, file, utcnow, delta, io) ==
    IF ~Truthy(code) THEN Out(file, "code_required", 0, EmptyDict, 0, FALSE)
    ELSE IF resp.kind = "timeout" THEN Out(file, "timeout", 0, EmptyDict, 1, FALSE)
    ELSE IF resp.kind = "neterr" THEN Out(file, "request_failed", 0, EmptyDict, 1, FALSE)
    ELSE IF resp.json = "invalid" THEN Out(file, "invalid_json", 0, EmptyDict, 1, FALSE)
    ELSE IF resp.json = "invalid_rq" THEN Out(file, "request_failed", 0, EmptyDict, 1, FALSE)
    ELSE IF ~IsJson(resp) THEN Out(file, "unexpected", 0, EmptyDict, 1, FALSE)
    ELSE IF resp.status = 200
    THEN IF resp.json = "object" /\ Has(resp.body, "access_token")
         THEN IF Has(resp.body, "expires_in") /\ int_raises(resp.body["expires_in"])
              THEN Out(file, "unexpected", 0, EmptyDict, 1, FALSE)
              ELSE LET response_data == stamp(resp.body, utcnow, delta)
                       saved == oauth_save_token(file, response_data, io)
                   IN  Out(saved.file, "success", 0,
                           exchange_result(response_data), 1, FALSE)
         ELSE IF resp.json = "object" /\ Has(resp.body, "error")
              THEN OutD(file, "oauth_error", 0, EmptyDict, 1, FALSE, error_msg(resp.body))
              ELSE Out(file, "no_access_token", 0, EmptyDict, 1, FALSE)
    ELSE OutD(file, "http_error", resp.status, EmptyDict, 1, FALSE, http_error_msg(resp))

\* auth.async_exchange_code_for_token: code[:10] raises on None; every
\* exception ends in the outer except.
async_exchange_code_for_token(code, resp, file, localnow, delta, io) ==
    IF code.t # "str" THEN Out(file, "exchange_failed", 0, EmptyDict, 0, FALSE)
    ELSE IF resp.kind # "http" THEN Out(file, "exchange_failed", 0, EmptyDict, 1, FALSE)
    ELSE IF resp.status = 200
    THEN IF resp.json # "object" \/ enhanced_raises(resp.body)
         THEN Out(file, "invalid_json", 0, EmptyDict, 1, FALSE)
         ELSE LET enhanced == enhanced_token_data(resp.body, localnow, delta)
                  saved == save_token(file, enhanced, io)
              IN  IF saved.raised
                  THEN Out(saved.file, "invalid_json", 0, EmptyDict, 1, FALSE)
                  ELSE Out(saved.file, "returned_record", 0, enhanced, 1, FALSE)
    ELSE Out(file, "http_error", resp.status, EmptyDict, 1, FALSE)

\* auth.aliexpress_callback (the FastAPI router's callback)
aliexpress_callback(code, resp, file, localnow, delta, io) ==
    IF ~Truthy(code) THEN Out(file, "missing_code", 400, EmptyDict, 0, FALSE)
    ELSE IF resp.kind # "http" THEN Out(file, "exception", 500, EmptyDict, 1, FALSE)
    ELSE IF resp.status # 200
    THEN Out(file, "token_exchange_failed", resp.status, EmptyDict, 1, FALSE)
    ELSE IF resp.json # "object" \/ enhanced_raises(resp.body)
    THEN Out(file, "invalid_format", 500, EmptyDict, 1, FALSE)
    ELSE LET enhanced == enhanced_token_data(resp.body, localnow, delta)
             saved == save_token(file, enhanced, io)
         IN  IF saved.raised
             THEN Out(saved.file, "invalid_format", 500, EmptyDict, 1, FALSE)
             ELSE Out(saved.file, "success", 200, enhanced, 1, FALSE)

\* A callback handler that asks the endpoint again when the exchange failed.
handle_callback_retry(code, resp, file, utcnow, delta, io) ==
    IF code.t # "str" THEN Out(file, "callback_failed", 0, EmptyDict, 0, FALSE)
    ELSE IF ~Truthy(code) THEN Out(file, "missing_code", 0, EmptyDict, 0, FALSE)
    ELSE LET first == exchange_code_for_token(code, resp, file, utcnow, delta, io)
             again == exchange_code_for_token(code, resp, first.file, utcnow, delta, io)
         IN  IF first.res.out # "success"
             THEN Out(again.file, "token_exchange_failed", 0, EmptyDict,
                      first.res.posts + again.res.posts, FALSE)
             ELSE Out(first.file, "success", 0, first.res.ret, first.res.posts, FALSE)

\* auth.handle_callback: code[:10] raises on None; one call of
\* exchange_code_for_token.
handle_callback(code, resp, file, utcnow, delta, io) ==
    IF code.t # "str" THEN Out(file, "callback_failed", 0, EmptyDict, 0, FALSE)
    ELSE IF ~Truthy(code) THEN Out(file, "missing_code", 0, EmptyDict, 0, FALSE)
    ELSE LET token_result == exchange_code_for_token(code, resp, file, utcnow, delta, io)
         IN  IF token_result.res.out # "success"
             THEN Out(token_result.file, "token_exchange_failed", 0, EmptyDict,
                      token_result.res.posts, FALSE)
             ELSE Out(token_result.file, "success", 0, token_result.res.ret,
                      token_result.res.posts, FALSE)

\* aliexpress_fastapi.exchange_token (GET /api/aliexpress/exchange_token): each
\* failure is an HTTPException with a status; its TokenStorage.save_token
\* writes the same file and re-raises as auth.py's does.
exchange_token(code, resp, file, utcnow, delta, io) ==
    IF ~Truthy(code) THEN Out(file, "code_required", 400, EmptyDict, 0, TRUE)
    ELSE IF resp.kind = "timeout" THEN Out(file, "timeout", 408, EmptyDict, 1, TRUE)
    ELSE IF resp.kind = "neterr" THEN Out(file, "request_failed", 500, EmptyDict, 1, TRUE)
    ELSE IF ~IsJson(resp) THEN Out(file, "invalid_json", 500, EmptyDict, 1, TRUE)
    ELSE IF resp.status = 200
    THEN IF resp.json = "object" /\ Has(resp.body, "access_token")
         THEN IF Has(resp.body, "expires_in") /\ int_raises(resp.body["expires_in"])
              THEN Out(file, "unexpected", 500, EmptyDict, 1, TRUE)
              ELSE LET response_data == stamp(resp.body, utcnow, delta)
                       saved == save_token(file, response_data, io)
                   IN  IF saved.raised
                       THEN Out(saved.file, "unexpected", 500, EmptyDict, 1, TRUE)
                       ELSE Out(saved.file, "success", 200,
                                exchange_result(response_data), 1, FALSE)
         ELSE IF resp.json = "object" /\ Has(resp.body, "error")
              THEN OutD(file, "oauth_error", 400, EmptyDict, 1, TRUE, error_msg(resp.body))
              ELSE Out(file, "no_access_token", 500, EmptyDict, 1, TRUE)
    ELSE OutD(file, "http_error", resp.status, EmptyDict, 1, TRUE, http_error_msg(resp))

\* ------------------------------------------------------------------- refresh

\* The try block of utils.refresh_token: the request and what follows it.
refresh_request(old_refresh_token, resp, file, utcnow, delta, io) ==
    IF resp.kind = "timeout" THEN Out(file, "timed_out", 0, EmptyDict, 1, TRUE)
    ELSE IF resp.kind = "neterr" THEN Out(file, "request_failed", 0, EmptyDict, 1, TRUE)
    ELSE IF resp.status = 200
    THEN IF ~IsJson(resp) THEN Out(file, "invalid_response", 0, EmptyDict, 1, TRUE)
         ELSE IF resp.json = "object" /\ Has(resp.body, "access_token")
         THEN IF Has(resp.body, "expires_in") /\ int_raises(resp.body["expires_in"])
              THEN Out(file, "unexpected", 0, EmptyDict, 1, TRUE)
              ELSE LET response_data == stamp(resp.body, utcnow, delta)
                       saved == save_token_to_file(file, response_data, io)
                   IN  IF saved.raised
                       THEN Out(saved.file, "unexpected", 0, EmptyDict, 1, TRUE)
                       ELSE Out(saved.file, "success", 0, response_data, 1, FALSE)
         ELSE IF resp.json = "object"
              THEN OutD(file, "refresh_failed", 0, EmptyDict, 1, TRUE,
                        GetOr(resp.body, "error_description", Str("Token refresh failed")))
              ELSE Out(file, "unexpected", 0, EmptyDict, 1, TRUE)
    ELSE IF resp.json = "invalid_ctjson"
    THEN Out(file, "invalid_response", 0, EmptyDict, 1, TRUE)
    ELSE Out(file, "refresh_failed_status", resp.status, EmptyDict, 1, TRUE)

\* A refresh that sends whatever token it is given.
refresh_token_unchecked(old_refresh_token, resp, file, utcnow, delta, io) ==
    refresh_request(old_refresh_token, resp, file, utcnow, delta, io)

\* utils.refresh_token: every failure is a raised exception.
refresh_token(old_refresh_token, resp, file, utcnow, delta, io) ==
    IF ~Truthy(old_refresh_token) THEN Out(file, "value_error", 0, EmptyDict, 0, TRUE)
    ELSE refresh_request(old_refresh_token, resp, file, utcnow, delta, io)

\* routes.refresh_access_token (POST /refresh_token)
refresh_access_token(resp, file, utcnow, delta, io) ==
    LET current_token == load_token_from_file(file, utcnow)
    IN  IF ~current_token.some \/ current_token.d = EmptyDict
                \/ ~Has(current_token.d, "refresh_token")
        THEN Out(file, "no_refresh_token", 400, EmptyDict, 0, TRUE)
        ELSE LET r == refresh_token(current_token.d["refresh_token"], resp, file,
                                    utcnow, delta, io)
             IN  IF r.res.raised
                 THEN OutD(r.file, "refresh_failed", 500, EmptyDict, r.res.posts, TRUE,
                           r.res.detail)
                 ELSE Out(r.file, "success", 200, r.res.ret, r.res.posts, FALSE)

\* ------------------------------------------------ calls of the AliExpress API

\* What one POST to ALIEXPRESS_API_BASE_URL/sync ends with.
ApiResponses ==
    { Timeout, NetErr,
      Http(200, "object", EmptyDict), Http(200, "invalid", EmptyDict),
      Http(500, "invalid", EmptyDict), Http(500, "invalid_ctjson", EmptyDict) }

\* The explicit tokens a caller passes: none, the empty string, a token.
ApiTokens == {Null, Str(""), Str("tokX")}

\* make_aliexpress_api_call with a token in hand: the request and what becomes
\* of its response.
api_request(resp, file) ==
    IF resp.kind = "timeout" THEN Out(file, "timed_out", 0, EmptyDict, 1, TRUE)
    ELSE IF resp.kind = "neterr" THEN Out(file, "request_failed", 0, EmptyDict, 1, TRUE)
    ELSE IF resp.status = 200
    THEN IF IsJson(resp) THEN Out(file, "ok", 200, resp.body, 1, FALSE)
         ELSE Out(file, "unexpected", 0, EmptyDict, 1, TRUE)
    ELSE IF resp.json = "invalid_ctjson"
    THEN Out(file, "unexpected", 0, EmptyDict, 1, TRUE)
    ELSE Out(file, "api_failed", resp.status, EmptyDict, 1, TRUE)

\* The same, sending a request although no valid token is stored.
make_aliexpress_api_call_anyway(token, resp, file, utcnow) ==
    api_request(resp, file)

\* utils.make_aliexpress_api_call.  A falsy token counts as no token: the
\* stored one is then loaded, and without a valid stored one the call raises
\* "No valid access token available" before any request.
make_aliexpress_api_call(token, resp, file, utcnow) ==
    LET token_data == load_token_from_file(file, utcnow)
    IN  IF ~Truthy(token) /\ ~token_data.some
        THEN Out(file, "no_valid_token", 0, EmptyDict, 0, TRUE)
        ELSE api_request(resp, file)

\* routes.get_token_status (GET /token/status).  has_token says that the
\* response carries the fields of a token.  The clock is read once by
\* load_token_from_file and, delta later, once by is_token_valid.
routes_get_token_status(file, utcnow, delta) ==
    LET token_data == load_token_from_file(file, utcnow)
    IN  IF ~token_data.some
        THEN [raised |-> FALSE, has_token |-> FALSE, authenticated |-> FALSE,
              message |-> "No token found"]
        ELSE LET is_valid == is_token_valid(token_data, utcnow + delta)
             IN  [raised |-> FALSE, has_token |-> TRUE, authenticated |-> is_valid,
                  message |-> IF is_valid THEN "Token is valid"
                              ELSE "Token is expired or invalid"]

\* The same, removing a token file that holds no valid record.
test_connection_purging(resp, file, utcnow, delta) ==
    LET token_data == load_token_from_file(file, utcnow)
    IN  IF ~token_data.some \/ ~is_token_valid(token_data, utcnow + delta)
        THEN Out(NoFile, "not_authenticated", 200, EmptyDict, 0, FALSE)
        ELSE LET r == make_aliexpress_api_call(token_data.d["access_token"], resp, file,
                                               utcnow + delta)
             IN  Out(file,
                     IF r.res.raised THEN "connection_established" ELSE "connection_ok",
                     200, EmptyDict, r.res.posts, FALSE)

\* routes.test_connection (GET /test/connection): the API is called with the
\* stored access token only when a valid record is stored; a failure of that
\* call is reported as an established connection.
test_connection(resp, file, utcnow, delta) ==
    LET token_data == load_token_from_file(file, utcnow)
    IN  IF ~token_data.some \/ ~is_token_valid(token_data, utcnow + delta)
        THEN Out(file, "not_authenticated", 200, EmptyDict, 0, FALSE)
        ELSE LET r == make_aliexpress_api_call(token_data.d["access_token"], resp, file,
                                               utcnow + delta)
             IN  Out(file,
                     IF r.res.raised THEN "connection_established" ELSE "connection_ok",
                     200, EmptyDict, r.res.posts, FALSE)

\* ------------------------------------------- configuration and the callbacks

\* The variables the credentials are read from.
EnvNames == {"ALIEXPRESS_APP_KEY", "ALIEXPRESS_APP_SECRET", "ALIEXPRESS_CALLBACK_URL"}

\* An environment: each variable is set to a value or is not set.
Envs == [EnvNames -> {Absent, Str("configured")}]

\* The environment with every variable set.
Configured == [name \in EnvNames |-> Str("configured")]

\* os.getenv(name, default).
os_getenv(env, name, default) == IF env[name] = Absent THEN default ELSE env[name]

\* The credentials a URL or a request carries.
Payload(client_id, client_secret, redirect_uri) ==
    [client_id |-> client_id, client_secret |-> client_secret,
     redirect_uri |-> redirect_uri]

NoPayload == Payload(Absent, Absent, Absent)

\* The values built into the modules for variables that are not set.
BuiltIn == Payload(Str("built_in_app_key"), Str("built_in_app_secret"),
                   Str("built_in_callback_url"))

\* APP_KEY, APP_SECRET and CALLBACK_URL of auth.py.
module_config(env) ==
    Payload(os_getenv(env, "ALIEXPRESS_APP_KEY", BuiltIn.client_id),
            os_getenv(env, "ALIEXPRESS_APP_SECRET", BuiltIn.client_secret),
            os_getenv(env, "ALIEXPRESS_CALLBACK_URL", BuiltIn.redirect_uri))

\* The payload of the standalone callback: os.getenv without a default.
standalone_payload(env) ==
    Payload(os_getenv(env, "ALIEXPRESS_APP_KEY", Null),
            os_getenv(env, "ALIEXPRESS_APP_SECRET", Null),
            os_getenv(env, "ALIEXPRESS_CALLBACK_URL", Null))

\* auth.get_oauth_authorization_url: the URL is built from APP_KEY and
\* CALLBACK_URL whatever they are; urlencode of strings does not raise.
get_oauth_authorization_url(env, file) ==
    [Out(file, "success", 0, EmptyDict, 0, FALSE)
        EXCEPT !.res.detail = Str("authorization_url")]

\* The error parameter a callback request may carry.
ErrorParams == {Null, Str("access_denied")}

\* The callback of auth.py's router: error is read and logged, no more.
router_aliexpress_callback(code, error, resp, file, localnow, delta, io) ==
    aliexpress_callback(code, resp, file, localnow, delta, io)

\* aliexpress_fastapi_standalone.aliexpress_callback.  error is read and
\* logged, no more.  A 200 body is saved by the module's own save_token_to_file
\* into aliexpress_token_fastapi.json, another file than the token file, and
\* what that write raises is swallowed: "saved" and "unsaved" tell the two.
standalone_aliexpress_callback(code, error, resp, file, io) ==
    IF ~Truthy(code) THEN Out(file, "missing_code", 400, EmptyDict, 0, FALSE)
    ELSE IF resp.kind = "timeout" THEN Out(file, "timed_out", 408, EmptyDict, 1, FALSE)
    ELSE IF resp.kind = "neterr" THEN Out(file, "exception", 500, EmptyDict, 1, FALSE)
    ELSE IF resp.status # 200
    THEN Out(file, "exchange_failed", resp.status, EmptyDict, 1, FALSE)
    ELSE IF resp.json # "object" THEN Out(file, "exception", 500, EmptyDict, 1, FALSE)
    ELSE Out(file, IF io = "ok" THEN "saved" ELSE "unsaved", 200, resp.body, 1, FALSE)

\* routes.oauth_callback: an error parameter ends the request with a 400
\* before anything else; without one the code is exchanged by the async
\* exchange.
routes_oauth_callback(code, error, resp, file, localnow, delta, io) ==
    IF Truthy(error) THEN OutD(file, "oauth_error", 400, EmptyDict, 0, TRUE, error)
    ELSE IF ~Truthy(code) THEN Out(file, "code_required", 400, EmptyDict, 0, TRUE)
    ELSE LET r == async_exchange_code_for_token(code, resp, file, localnow, delta, io)
         IN  IF r.res.raised
             THEN Out(r.file, "callback_failed", 500, EmptyDict, r.res.posts, TRUE)
             ELSE Out(r.file, "success", 200, r.res.ret, r.res.posts, FALSE)

\* aliexpress_fastapi.oauth_callback: every request ends in a redirect to the
\* frontend; the handler neither exchanges nor stores anything.
fastapi_oauth_callback(code, error, file) ==
    IF Truthy(error) THEN OutD(file, "redirect_error", 307, EmptyDict, 0, FALSE, error)
    ELSE IF ~Truthy(code) THEN Out(file, "redirect_missing_code", 307, EmptyDict, 0, FALSE)
    ELSE Out(file, "redirect_success", 307, EmptyDict, 0, FALSE)

\* ------------------------------------------------ the log of a failed parse

\* The longest raw body, in characters.
MaxBodyLen == 220

\* The characters of the raw body that the message of the failure may carry.
MessageLimit == 200

BodyLens == 0..MaxBodyLen

\* len(text[:k]) for a text of n characters.
slice(n, k) == IF n < k THEN n ELSE k

\* What is logged of the raw body: nothing, or its first `logged` characters.
NoLog == [body |-> 0, logged |-> 0]

\* The except branch of response.json() in the synchronous exchange, for a raw
\* body of n characters: logger.error writes response.text, the message
\* carries response.text[:200].
invalid_json_report(n) ==
    [message |-> slice(n, MessageLimit), log |-> [body |-> n, logged |-> n]]

\* ------------------------------------------------- the external scrapers

\* The keys of ExternalScrapersManager.scraper_paths.
ScraperNames == {"jobfunnel", "paper", "scrapfly"}

\* The dependency files install_dependencies looks for, in its order.
DependencyFiles == << "requirements.txt", "pyproject.toml", "setup.py" >>

DependencyFileSet == {DependencyFiles[i] : i \in 1..Len(DependencyFiles)}

\* What subprocess.run ends with: the process exits with status 0, exits with
\* another status, outlives the timeout, or run raises something else.
PipOutcomes == {"zero", "nonzero", "timeout", "raised"}

\* What an install ends with: pip exits with status 0, exits with another
\* status, or subprocess.run raises (its timeout among the rest).
InstallOutcomes == {"zero", "nonzero", "raised"}

\* An entry of a result dict.  error is "none" for an entry without that key.
ScraperResult(success, error, dependency_file) ==
    [success |-> success, error |-> error, dependency_file |-> dependency_file]

NoEntry == ScraperResult(FALSE, "no_entry", "none")

\* install_dependencies, the loop over the dependency files of one scraper
\* from the i-th file on.  exists is the set of files the scraper's directory
\* holds, pip what an install from each would end with; acc holds results[name],
\* the installed flag and the installs attempted so far.
RECURSIVE install_scan(_, _, _, _)
install_scan(i, exists, pip, acc) ==
    IF i > Len(DependencyFiles) THEN acc
    ELSE LET dep_file == DependencyFiles[i]
             run == [dependency_file |-> dep_file, outcome |-> pip[dep_file]]
         IN  IF dep_file \notin exists THEN install_scan(i + 1, exists, pip, acc)
             ELSE IF pip[dep_file] = "raised"
             THEN install_scan(i + 1, exists, pip,
                               [acc EXCEPT !.result = ScraperResult(FALSE, "raised", dep_file),
                                           !.runs = Append(@, run)])
             ELSE [result |-> ScraperResult(pip[dep_file] = "zero", "none", dep_file),
                   installed |-> TRUE,
                   runs |-> Append(acc.runs, run)]

\* install_dependencies, the body of the loop over the scrapers: a scraper for
\* which no install completed gets the entry "No dependency files found".
install_scraper(exists, pip) ==
    LET r == install_scan(1, exists, pip,
                          [result |-> NoEntry, installed |-> FALSE, runs |-> << >>])
    IN  IF r.installed THEN r
        ELSE [r EXCEPT !.result = ScraperResult(FALSE, "no_dependency_files", "none")]

\* The names a batch configuration may carry: none (or an empty one), two
\* scrapers of the manager, and a name the manager does not know.
ConfigNames == {Null, Str("jobfunnel"), Str("paper"), Str("nosuch")}

\* The longest batch.
MaxConfigs == 3

\* A batch configuration and what the process it starts would end with.
Configs == [name : ConfigNames, outcome : PipOutcomes]

Batches == UNION {[1..n -> Configs] : n \in 0..MaxConfigs}

\* What run_scraper returns, and whether it called subprocess.run to launch a
\* process.
Ran(result, launched) == [result |-> result, launched |-> launched]

\* The same, launching the process whether or not the scraper is available.
run_scraper_anyway(name, paths, outcome) ==
    IF outcome = "timeout" THEN Ran(ScraperResult(FALSE, "timed_out", "none"), TRUE)
    ELSE IF outcome = "raised" THEN Ran(ScraperResult(FALSE, "raised", "none"), TRUE)
    ELSE Ran(ScraperResult(outcome = "zero", "none", "none"), TRUE)

\* ExternalScrapersManager.run_scraper.  paths is the set of scrapers whose
\* path exists.
run_scraper(name, paths, outcome) ==
    IF name.s \notin ScraperNames \/ name.s \notin paths
    THEN Ran(ScraperResult(FALSE, "not_available", "none"), FALSE)
    ELSE IF outcome = "timeout" THEN Ran(ScraperResult(FALSE, "timed_out", "none"), TRUE)
    ELSE IF outcome = "raised" THEN Ran(ScraperResult(FALSE, "raised", "none"), TRUE)
    ELSE Ran(ScraperResult(outcome = "zero", "none", "none"), TRUE)

\* The names a result dict of batch_execute may have as keys.
ResultKeys == {name.s : name \in ConfigNames \ {Null}}

\* ExternalScrapersManager.batch_execute, the loop from the i-th configuration
\* on.  acc holds the results dict and the positions of the configurations a
\* process was launched for, in the order of the launches.
RECURSIVE batch_scan(_, _, _, _)
batch_scan(i, scraper_configs, paths, acc) ==
    IF i > Len(scraper_configs) THEN acc
    ELSE LET config == scraper_configs[i]
         IN  IF ~Truthy(config.name) THEN batch_scan(i + 1, scraper_configs, paths, acc)
             ELSE LET r == run_scraper(config.name, paths, config.outcome)
                  IN  batch_scan(i + 1, scraper_configs, paths,
                                 [results |-> [acc.results EXCEPT ![config.name.s] = r.result],
                                  launches |-> IF r.launched THEN Append(acc.launches, i)
                                               ELSE acc.launches])

batch_execute(scraper_configs, paths) ==
    batch_scan(1, scraper_configs, paths,
               [results |-> [k \in ResultKeys |-> NoEntry], launches |-> << >>])

\* --------------------------------------------------------------------- state

VARIABLES
    file,      \* the token file
    now,       \* the UTC clock, in seconds
    tz,        \* the host's local-time offset from UTC
    last,      \* the call that has just returned: its name, input, upstream
               \* response and result
    writer,    \* per concurrent writer: where it is in its write of the file
    reader,    \* what a reader running beside the writers last observed
    env,       \* the process environment: the ALIEXPRESS_* variables that are set
    manager    \* the external scrapers: what is on disk, and the manager's last call

vars == << file, now, tz, last, writer, reader, env, manager >>

utcnow == now

localnow == now + tz

NoRead == [raised |-> FALSE, some |-> FALSE, d |-> EmptyDict]

NoStatus ==
    [raised |-> FALSE, has_token |-> FALSE, authenticated |-> FALSE, message |-> ""]

\* A call that may write: its input, the endpoint's response, what the storage
\* did to its write (io), and its result.
Call(name, input, resp, io, res) ==
    [op |-> name, code |-> input, resp |-> resp, io |-> io, res |-> res,
     got |-> NoRead, val |-> Null, status |-> NoStatus, error |-> Null,
     sent |-> NoPayload, log |-> NoLog]

\* A read: the Optional[dict], the Optional[str] or the status dict it returned.
Read(name, got, val, status) ==
    [op |-> name, code |-> Null, resp |-> Unasked, io |-> "ok", res |-> NoCall,
     got |-> got, val |-> val, status |-> status, error |-> Null, sent |-> NoPayload,
     log |-> NoLog]

\* No call has just returned.
Idle == Call("none", Null, Unasked, "ok", NoCall)

\* The manager's last call: its name, the installs or the batch it was given,
\* the dict it returned and the processes it launched.
NoManagerCall ==
    [op |-> "none", installs |-> [name \in ScraperNames |-> NoEntry],
     runs |-> [name \in ScraperNames |-> << >>],
     configs |-> << >>, results |-> [k \in ResultKeys |-> NoEntry], launches |-> << >>]

\* No scraper is on disk and the manager has not been called.
ManagerIdle ==
    [paths |-> {}, deps |-> [name \in ScraperNames |-> {}], call |-> NoManagerCall]

\* The processes that may write the file at the same time.
Writers == {"w1", "w2"}

WriterIdle == [pc |-> "idle", text |-> << >>, prior |-> NoFile, n |-> 0]

ReaderIdle ==
    [op |-> "none", got |-> NoRead, busy |-> FALSE, prior |-> NoFile, text |-> << >>,
     at |-> Epoch0]

Init ==
    /\ file = NoFile
    /\ now = Epoch0
    /\ tz \in TzOffsets
    /\ last = Idle
    /\ writer = [w \in Writers |-> WriterIdle]
    /\ reader = ReaderIdle
    /\ env = Configured
    /\ manager = ManagerIdle

\* One minute passes; the call that had just returned is now in the past.
Tick ==
    /\ now < Epoch0 + Horizon * SecondsPerMinute
    /\ now' = now + SecondsPerMinute
    /\ last' = Idle
    /\ UNCHANGED << file, tz, writer, reader, env, manager >>

\* Something other than this program deletes the file, makes it unreadable or
\* leaves text in it that is no JSON.
Tamper ==
    /\ last = Idle
    /\ \E f \in {NoFile, UnreadableFile, FileOf(GarbageText)} :
          /\ f # file
          /\ file' = f
    /\ last' = Idle
    /\ UNCHANGED << now, tz, writer, reader, env, manager >>

\* The caller takes the result of the call that has just returned.
Return ==
    /\ last # Idle
    /\ last' = Idle
    /\ UNCHANGED << file, now, tz, writer, reader, env, manager >>

\* A call returns r; the response is Unasked exactly if it sent no request.
\* Calls are made one after the other.
Apply(name, input, resp, io, r) ==
    /\ last = Idle
    /\ (r.res.posts = 0) <=> (resp = Unasked)
    /\ file' = r.file
    /\ last' = Call(name, input, resp, io, r.res)
    /\ UNCHANGED << now, tz, writer, reader, env, manager >>

Exchange ==
    \E code \in Codes, resp \in RequestsResponses \cup {Unasked} :
        \E delta \in DriftFor(resp), io \in IoFor(resp) :
            Apply("exchange", code, resp, io,
                  exchange_code_for_token(code, resp, file, utcnow, delta, io))

OauthExchange ==
    \E code \in Codes, resp \in RequestsResponses \cup {Unasked} :
        \E delta \in DriftFor(resp), io \in IoFor(resp) :
            Apply("oauth_exchange", code, resp, io,
                  oauth_exchange_code_for_token(code, resp, file, utcnow, delta, io))

AsyncExchange ==
    \E code \in Codes, resp \in Responses \cup {Unasked} :
        \E delta \in DriftFor(resp), io \in IoFor(resp) :
            Apply("async_exchange", code, resp, io,
                  async_exchange_code_for_token(code, resp, file, localnow, delta, io))

FastapiExchange ==
    \E code \in Codes, resp \in Responses \cup {Unasked} :
        \E delta \in DriftFor(resp), io \in IoFor(resp) :
            Apply("fastapi_exchange", code, resp, io,
                  exchange_token(code, resp, file, utcnow, delta, io))

HandleCallback ==
    \E code \in Codes, resp \in RequestsResponses \cup {Unasked} :
        \E delta \in DriftFor(resp), io \in IoFor(resp) :
            Apply("handle_callback", code, resp, io,
                  handle_callback(code, resp, file, utcnow, delta, io))

Callback ==
    \E code \in Codes, resp \in Responses \cup {Unasked} :
        \E delta \in DriftFor(resp), io \in IoFor(resp) :
            Apply("callback", code, resp, io,
                  aliexpress_callback(code, resp, file, localnow, delta, io))

RefreshTokens == {Null, Str(""), Str("r1")}

Refresh ==
    \E old \in RefreshTokens, resp \in HttpxResponses \cup {Unasked} :
        \E delta \in DriftFor(resp), io \in IoFor(resp) :
            Apply("refresh", old, resp, io,
                  refresh_token(old, resp, file, utcnow, delta, io))

\* POST /refresh_token.  resp is what the endpoint answers to a refresh request,
\* whether or not the route sends one.
RefreshRoute ==
    \E resp \in HttpxResponses :
        \E delta \in DriftFor(resp), io \in IoFor(resp) :
            LET r == refresh_access_token(resp, file, utcnow, delta, io)
            IN  /\ last = Idle
                /\ file' = r.file
                /\ last' = Call("refresh_route", Null, resp, io, r.res)
                /\ UNCHANGED << now, tz, writer, reader, env, manager >>

LoadToken ==
    /\ last = Idle
    /\ last' = Read("load_token", load_token(file), Null, NoStatus)
    /\ UNCHANGED << file, now, tz, writer, reader, env, manager >>

LoadTokenFromFile ==
    /\ last = Idle
    /\ last' = Read("load_token_from_file", load_token_from_file(file, utcnow),
                    Null, NoStatus)
    /\ UNCHANGED << file, now, tz, writer, reader, env, manager >>

OauthLoadToken ==
    /\ last = Idle
    /\ last' = Read("oauth_load_token", oauth_load_token(file, utcnow), Null, NoStatus)
    /\ UNCHANGED << file, now, tz, writer, reader, env, manager >>

GetAccessToken ==
    /\ last = Idle
    /\ LET r == get_access_token(file, utcnow)
       IN  last' = Read("get_access_token",
                        [raised |-> r.raised, some |-> FALSE, d |-> EmptyDict],
                        r.v, NoStatus)
    /\ UNCHANGED << file, now, tz, writer, reader, env, manager >>

GetTokenStatus ==
    /\ last = Idle
    /\ LET r == get_token_status(file, utcnow)
       IN  last' = Read("get_token_status",
                        [raised |-> r.raised, some |-> FALSE, d |-> EmptyDict],
                        Null, r)
    /\ UNCHANGED << file, now, tz, writer, reader, env, manager >>

Next ==
    \/ Tick
    \/ Return
    \/ Tamper
    \/ Exchange
    \/ OauthExchange
    \/ AsyncExchange
    \/ FastapiExchange
    \/ HandleCallback
    \/ Callback
    \/ Refresh
    \/ RefreshRoute
    \/ LoadToken
    \/ LoadTokenFromFile
    \/ OauthLoadToken
    \/ GetAccessToken
    \/ GetTokenStatus

Spec == Init /\ [][Next]_vars

\* ------------------------------------------------ a reader beside a writer

\* Writer w runs exchange_code_for_token up to save_token's open(): the
\* response grants a token, the record is stamped, the file is truncated.
WriterOpen(w) ==
    /\ writer[w].pc = "idle"
    /\ writer[w].n < MaxWrites
    /\ \E resp \in Responses :
          \E delta \in DriftFor(resp) :
              LET whole == exchange_code_for_token(Str("code1"), resp, file, utcnow,
                                                   delta, "ok")
              IN  /\ whole.res.out = "success"
                  /\ writer' = [writer EXCEPT ![w] =
                        [pc |-> "opened", text |-> whole.file.text, prior |-> file,
                         n |-> writer[w].n + 1]]
    /\ file' = open_w(file)
    /\ UNCHANGED << now, tz, last, reader, env, manager >>

\* Writer w leaves the with block: json.dump's text is flushed and the call returns.
WriterClose(w) ==
    /\ writer[w].pc = "opened"
    /\ file' = close_w(file, writer[w].text)
    /\ writer' = [writer EXCEPT ![w] = [@ EXCEPT !.pc = "idle"]]
    /\ UNCHANGED << now, tz, last, reader, env, manager >>

\* The writer that has the file open, if there is exactly one.
ActiveWriters == {w \in Writers : writer[w].pc = "opened"}

Observation(name, got) ==
    IF Cardinality(ActiveWriters) = 1
    THEN LET w == CHOOSE x \in ActiveWriters : TRUE
         IN  [op |-> name, got |-> got, busy |-> TRUE, prior |-> writer[w].prior,
              text |-> writer[w].text, at |-> now]
    ELSE [op |-> name, got |-> got, busy |-> FALSE, prior |-> NoFile, text |-> << >>,
          at |-> now]

\* Another process calls TokenStorage.load_token.
ReaderLoadToken ==
    /\ reader' = Observation("load_token", load_token(file))
    /\ UNCHANGED << file, now, tz, last, writer, env, manager >>

\* Another process calls utils.load_token_from_file.
ReaderLoadTokenFromFile ==
    /\ reader' = Observation("load_token_from_file", load_token_from_file(file, utcnow))
    /\ UNCHANGED << file, now, tz, last, writer, env, manager >>

ReaderNext ==
    \/ Tick
    \/ WriterOpen("w1")
    \/ WriterClose("w1")
    \/ ReaderLoadToken
    \/ ReaderLoadTokenFromFile

\* One writer and one reader, interleaved at the file operations.
ReaderSpec == Init /\ [][ReaderNext]_vars

\* -------------------------------------------------- two writers side by side

WritersNext ==
    \/ Tick
    \/ \E w \in Writers : writer[w].n = 0 /\ WriterOpen(w)
    \/ \E w \in Writers : WriterClose(w)

\* Two processes that each exchange a code once and save, interleaved at the
\* file operations.
WritersSpec == Init /\ [][WritersNext]_vars

\* ------------------------------------------- actions of the API calls

\* A caller asks is_token_valid about the record that load_token returns.
IsTokenValid ==
    /\ last = Idle
    /\ LET token_data == load_token(file)
       IN  last' = Read("is_token_valid", token_data, Null,
                        [NoStatus EXCEPT !.authenticated =
                            ~token_data.raised /\ is_token_valid(token_data, utcnow)])
    /\ UNCHANGED << file, now, tz, writer, reader, env, manager >>

ApiCall ==
    \E token \in ApiTokens, resp \in ApiResponses \cup {Unasked} :
        Apply("api_call", token, resp, "ok",
              make_aliexpress_api_call(token, resp, file, utcnow))

TestConnection ==
    \E resp \in ApiResponses \cup {Unasked}, delta \in Drift :
        Apply("test_connection", Null, resp, "ok",
              test_connection(resp, file, utcnow, delta))

RouteTokenStatus ==
    /\ last = Idle
    /\ \E delta \in Drift :
          LET r == routes_get_token_status(file, utcnow, delta)
          IN  last' = Read("route_token_status",
                           [raised |-> r.raised, some |-> FALSE, d |-> EmptyDict],
                           Null, r)
    /\ UNCHANGED << file, now, tz, writer, reader, env, manager >>

\* The token file under its writers and every call that only reads it.
ReadsNext ==
    \/ Tick
    \/ Return
    \/ Tamper
    \/ Exchange
    \/ AsyncExchange
    \/ IsTokenValid
    \/ LoadToken
    \/ LoadTokenFromFile
    \/ GetAccessToken
    \/ GetTokenStatus
    \/ RouteTokenStatus
    \/ ApiCall
    \/ TestConnection

ReadsSpec == Init /\ [][ReadsNext]_vars

\* ----------------------------------- actions of configuration and callbacks

\* A call that reads its credentials from the configuration returns r; sent
\* holds the credentials of the request it sent, if it sent one.
Sending(name, input, error, payload, resp, io, r) ==
    /\ last = Idle
    /\ (r.res.posts = 0) <=> (resp = Unasked)
    /\ file' = r.file
    /\ last' = [Call(name, input, resp, io, r.res)
                   EXCEPT !.error = error,
                          !.sent = IF r.res.posts = 0 THEN NoPayload ELSE payload]
    /\ UNCHANGED << now, tz, writer, reader, env, manager >>

\* GET of the authorization URL; sent holds the credentials in the URL.
AuthorizationUrl ==
    /\ last = Idle
    /\ LET r == get_oauth_authorization_url(env, file)
           cfg == module_config(env)
       IN  last' = [Call("authorization_url", Null, Unasked, "ok", r.res)
                       EXCEPT !.sent = Payload(cfg.client_id, Absent, cfg.redirect_uri)]
    /\ UNCHANGED << file, now, tz, writer, reader, env, manager >>

ConfiguredExchange ==
    \E code \in Codes, resp \in RequestsResponses \cup {Unasked} :
        \E delta \in DriftFor(resp), io \in IoFor(resp) :
            Sending("exchange", code, Null, module_config(env), resp, io,
                    exchange_code_for_token(code, resp, file, utcnow, delta, io))

RouterCallback ==
    \E code \in Codes, error \in ErrorParams, resp \in Responses \cup {Unasked} :
        \E delta \in DriftFor(resp), io \in IoFor(resp) :
            Sending("callback", code, error, module_config(env), resp, io,
                    router_aliexpress_callback(code, error, resp, file, localnow,
                                               delta, io))

StandaloneCallback ==
    \E code \in Codes, error \in ErrorParams, resp \in Responses \cup {Unasked} :
        \E io \in IoFor(resp) :
            Sending("standalone_callback", code, error, standalone_payload(env), resp, io,
                    standalone_aliexpress_callback(code, error, resp, file, io))

RoutesCallback ==
    \E code \in Codes, error \in ErrorParams, resp \in Responses \cup {Unasked} :
        \E delta \in DriftFor(resp), io \in IoFor(resp) :
            Sending("routes_callback", code, error, module_config(env), resp, io,
                    routes_oauth_callback(code, error, resp, file, localnow, delta, io))

FastapiCallback ==
    \E code \in Codes, error \in ErrorParams :
        Sending("fastapi_callback", code, error, NoPayload, Unasked, "ok",
                fastapi_oauth_callback(code, error, file))

\* The process starts with any of the variables set or not set.
CallbacksInit ==
    /\ file = NoFile
    /\ now = Epoch0
    /\ tz \in TzOffsets
    /\ last = Idle
    /\ writer = [w \in Writers |-> WriterIdle]
    /\ reader = ReaderIdle
    /\ env \in Envs
    /\ manager = ManagerIdle

CallbacksNext ==
    \/ Return
    \/ AuthorizationUrl
    \/ ConfiguredExchange
    \/ RouterCallback
    \/ StandaloneCallback
    \/ RoutesCallback
    \/ FastapiCallback

CallbacksSpec == CallbacksInit /\ [][CallbacksNext]_vars

\* ------------------------------------------------- actions of a failed parse

\* An exchange whose answer has a body of n characters that is no JSON.
Malformed(name, code, resp, n, r) ==
    /\ last = Idle
    /\ file' = r.file
    /\ last' = IF r.res.out = "invalid_json"
               THEN [Call(name, code, resp, "ok", r.res)
                        EXCEPT !.res.detail = Num(invalid_json_report(n).message),
                               !.log = invalid_json_report(n).log]
               ELSE Call(name, code, resp, "ok", r.res)
    /\ UNCHANGED << now, tz, writer, reader, env, manager >>

MalformedExchange ==
    \E code \in Codes \ {Null}, st \in {200, 500}, n \in BodyLens :
        Malformed("exchange", code, Http(st, "invalid", EmptyDict), n,
                  exchange_code_for_token(code, Http(st, "invalid", EmptyDict), file,
                                          utcnow, 0, "ok"))

MalformedOauthExchange ==
    \E code \in Codes \ {Null}, st \in {200, 500}, n \in BodyLens :
        Malformed("oauth_exchange", code, Http(st, "invalid", EmptyDict), n,
                  oauth_exchange_code_for_token(code, Http(st, "invalid", EmptyDict),
                                                file, utcnow, 0, "ok"))

LogNext ==
    \/ Return
    \/ MalformedExchange
    \/ MalformedOauthExchange

LogSpec == Init /\ [][LogNext]_vars

\* ------------------------------------------ actions of the external scrapers

\* The caller takes what the manager returned.
ManagerReturn ==
    /\ manager.call # NoManagerCall
    /\ manager' = [manager EXCEPT !.call = NoManagerCall]
    /\ UNCHANGED << file, now, tz, last, writer, reader, env >>

\* install_dependencies: for each scraper, pip is what an install from each
\* dependency file of its directory ends with.
InstallDependencies ==
    /\ manager.call = NoManagerCall
    /\ \E pip1 \in [manager.deps["jobfunnel"] -> InstallOutcomes],
          pip2 \in [manager.deps["paper"] -> InstallOutcomes],
          pip3 \in [manager.deps["scrapfly"] -> InstallOutcomes] :
          LET pip == [name \in ScraperNames |->
                         IF name = "jobfunnel" THEN pip1
                         ELSE IF name = "paper" THEN pip2 ELSE pip3]
              r == [name \in ScraperNames |->
                       install_scraper(manager.deps[name], pip[name])]
          IN  manager' = [manager EXCEPT !.call =
                             [NoManagerCall EXCEPT
                                 !.op = "install_dependencies",
                                 !.installs = [name \in ScraperNames |-> r[name].result],
                                 !.runs = [name \in ScraperNames |-> r[name].runs]]]
    /\ UNCHANGED << file, now, tz, last, writer, reader, env >>

\* batch_execute of a list of configurations.
BatchExecute ==
    /\ manager.call = NoManagerCall
    /\ \E scraper_configs \in Batches :
          LET r == batch_execute(scraper_configs, manager.paths)
          IN  manager' = [manager EXCEPT !.call =
                             [NoManagerCall EXCEPT
                                 !.op = "batch_execute",
                                 !.configs = scraper_configs,
                                 !.results = r.results,
                                 !.launches = r.launches]]
    /\ UNCHANGED << file, now, tz, last, writer, reader, env >>

\* The scrapers are on disk, each directory with any of the dependency files.
InstallInit ==
    /\ file = NoFile
    /\ now = Epoch0
    /\ tz = 0
    /\ last = Idle
    /\ writer = [w \in Writers |-> WriterIdle]
    /\ reader = ReaderIdle
    /\ env = Configured
    /\ \E deps \in [ScraperNames -> SUBSET DependencyFileSet] :
          manager = [ManagerIdle EXCEPT !.paths = ScraperNames, !.deps = deps]

InstallNext ==
    \/ InstallDependencies
    \/ ManagerReturn

InstallSpec == InstallInit /\ [][InstallNext]_vars

\* Any of the scrapers are on disk.
BatchInit ==
    /\ file = NoFile
    /\ now = Epoch0
    /\ tz = 0
    /\ last = Idle
    /\ writer = [w \in Writers |-> WriterIdle]
    /\ reader = ReaderIdle
    /\ env = Configured
    /\ \E paths \in SUBSET ScraperNames :
          manager = [ManagerIdle EXCEPT !.paths = paths]

BatchNext ==
    \/ BatchExecute
    \/ ManagerReturn

BatchSpec == BatchInit /\ [][BatchNext]_vars

\* ===================================================================== claims

\* The record the file holds: None when the file is missing, unreadable or no JSON.
Persisted ==
    IF file.exists /\ file.readable /\ ~json_load_raises(file.text)
    THEN Some(json_load(file.text))
    ELSE None

FiveMinutes == 5 * SecondsPerMinute

\* The instants of the clock.
ClockTimes == {Epoch0 + k * SecondsPerMinute : k \in 0..Horizon}

\* The record has an expires_at that is a timestamp.
HasExpiry(d) == d["expires_at"].t = "str" /\ ~fromisoformat_raises(d["expires_at"])

Expiry(d) == fromisoformat(d["expires_at"])

ExchangeOps ==
    {"exchange", "oauth_exchange", "async_exchange", "fastapi_exchange", "handle_callback",
     "callback"}

WriterOps == ExchangeOps \cup {"refresh", "refresh_route"}

\* C1: a call of exchange or refresh whose request fails (a timeout, a transport
\* failure, a non-200 status, a body that is no JSON, a 200 body without
\* access_token) leaves the token file as it was.
C1_FailedCallKeepsRecord ==
    [][(/\ last'.op \in WriterOps
        /\ last' # last
        /\ last'.res.posts > 0
        /\ ~Grants(last'.resp)) => file' = file]_vars

\* C2: is_token_valid rejects None and every record whose access_token is
\* missing, null or empty, and no read reports or returns such a record.
C2_EmptyTokenNeverValid ==
    /\ ~is_token_valid(None, now)
    /\ ~TokenStorage_is_token_valid(None, now)
    /\ ~oauth_is_token_valid(None, now)
    /\ (Persisted.some /\ ~Truthy(Get(Persisted.d, "access_token"))) =>
          /\ ~is_token_valid(Persisted, now)
          /\ ~TokenStorage_is_token_valid(Persisted, now)
          /\ ~oauth_is_token_valid(Persisted, now)
          /\ last.op \in {"load_token_from_file", "oauth_load_token"} => ~last.got.some
          /\ last.op = "get_token_status" => ~last.status.authenticated
          /\ last.op = "get_access_token" => last.val = Null

\* C3: for a record with an access_token and an expires_at, is_token_valid (in
\* each of its copies) is true exactly when now < expires_at - 5 minutes: true
\* for expires_at = now + 10 minutes, false for now + 4 minutes and false at
\* the boundary now = expires_at - 5 minutes; get_token_status reports that verdict.
C3_ValidIffBeforeMargin ==
    (Persisted.some /\ Has(Persisted.d, "access_token") /\ HasExpiry(Persisted.d)) =>
        LET E == Expiry(Persisted.d)
        IN  /\ \A t \in ClockTimes :
                  /\ is_token_valid(Persisted, t) = (t < E - FiveMinutes)
                  /\ TokenStorage_is_token_valid(Persisted, t) = (t < E - FiveMinutes)
                  /\ oauth_is_token_valid(Persisted, t) = (t < E - FiveMinutes)
            /\ E = now + 10 * SecondsPerMinute => is_token_valid(Persisted, now)
            /\ E = now + 4 * SecondsPerMinute => ~is_token_valid(Persisted, now)
            /\ E = now + FiveMinutes => ~is_token_valid(Persisted, now)
            /\ last.op = "get_token_status" =>
                  last.status.authenticated = (now < E - FiveMinutes)

\* C3's case: get_token_status has answered at the boundary instant.
C3_Witness ==
    /\ last.op = "get_token_status"
    /\ Persisted.some
    /\ Has(Persisted.d, "access_token")
    /\ HasExpiry(Persisted.d)
    /\ Expiry(Persisted.d) = now + FiveMinutes
    /\ ~last.status.authenticated

\* C4: a record with an access token and no expires_at is valid at every time.
C4_NoExpiryAlwaysValid ==
    (/\ Persisted.some
     /\ Truthy(Get(Persisted.d, "access_token"))
     /\ Get(Persisted.d, "expires_at") = Null) =>
        \A t \in ClockTimes :
            /\ is_token_valid(Persisted, t)
            /\ TokenStorage_is_token_valid(Persisted, t)
            /\ oauth_is_token_valid(Persisted, t)

\* C5: after a successful exchange (auth.exchange_code_for_token) the file holds
\* the response's fields with obtained_at = now and expires_at = obtained_at +
\* expires_in (up to the drift between the two clock reads), and at every later
\* instant before expires_at - 5 minutes a load of the unchanged file returns
\* exactly that record; a load that returns a record returns the persisted one.
C5_ExchangeThenLoadRoundTrip ==
    /\ (last.op = "exchange" /\ last.res.out = "success") =>
          LET body == last.resp.body
              P == Persisted
          IN  /\ P.some
              /\ \A f \in {"access_token", "refresh_token", "token_type", "scope",
                           "expires_in"} : P.d[f] = body[f]
              /\ ~fromisoformat_raises(P.d["obtained_at"])
              /\ fromisoformat(P.d["obtained_at"]) = now
              /\ last.res.ret["access_token"] = body["access_token"]
              /\ last.res.ret["obtained_at"] = P.d["obtained_at"]
              /\ Has(body, "expires_in") =>
                    /\ HasExpiry(P.d)
                    /\ (Expiry(P.d) - now) - body["expires_in"].n \in Drift
                    /\ last.res.ret["expires_at"] = P.d["expires_at"]
              /\ (Has(body, "expires_in") /\ body["expires_in"].n > FiveMinutes) =>
                    \A t \in ClockTimes :
                        (now <= t /\ t < now + body["expires_in"].n - FiveMinutes) =>
                            /\ load_token_from_file(file, t) = P
                            /\ oauth_load_token(file, t) = P
                            /\ get_access_token(file, t).v = body["access_token"]
    /\ (last.op = "load_token_from_file" /\ Persisted.some
            /\ Truthy(Get(Persisted.d, "access_token")) /\ HasExpiry(Persisted.d)
            /\ now < Expiry(Persisted.d) - FiveMinutes) => last.got = Persisted
    /\ (last.op \in {"load_token", "load_token_from_file", "oauth_load_token"}
            /\ last.got.some) => last.got = Persisted

\* C5's case: a load, some minutes after the exchange that wrote the record,
\* has returned it.
C5_Witness ==
    /\ last.op = "load_token_from_file"
    /\ last.got.some
    /\ last.got.d["access_token"] = Str("tokA")
    /\ last.got.d["refresh_token"] = Str("r1")
    /\ ~Has(last.got.d, "token_type")
    /\ HasExpiry(last.got.d)
    /\ fromisoformat(last.got.d["obtained_at"]) + 2 * SecondsPerMinute <= now

\* C6: a reader that runs while one writer saves observes the complete prior
\* record or the complete new record, never an empty or partial file.
C6_ReaderSeesOldOrNew ==
    reader.busy =>
        \/ /\ reader.op = "load_token"
           /\ reader.got \in {load_token(reader.prior), load_token(FileOf(reader.text))}
        \/ /\ reader.op = "load_token_from_file"
           /\ reader.got \in {load_token_from_file(reader.prior, reader.at),
                              load_token_from_file(FileOf(reader.text), reader.at)}

\* The endpoint accepts the refresh token: a 200 with a token that lives ten minutes.
Accepts(resp) ==
    /\ Grants(resp)
    /\ Truthy(resp.body["access_token"])
    /\ resp.body["expires_in"] = Num(LongLife)

\* C7: when the persisted record holds a refresh token and the time has passed
\* expires_at - 5 minutes, the refresh-token route, with an endpoint that
\* accepts the refresh token, sends the refresh request and leaves a record
\* that is_token_valid accepts.
C7_RefreshRevivesExpired ==
    [][(/\ last = Idle
        /\ last'.op = "refresh_route"
        /\ Persisted.some
        /\ Truthy(Get(Persisted.d, "refresh_token"))
        /\ HasExpiry(Persisted.d)
        /\ now >= Expiry(Persisted.d) - FiveMinutes
        /\ last'.io = "ok"
        /\ Accepts(last'.resp))
            => (last'.res.posts = 1 /\ is_token_valid(Persisted', now'))]_vars

\* C8: an exchange called with the empty code fails with "Authorization code is
\* required" and sends no request, in the synchronous and the async variants.
C8_EmptyCodeSendsNothing ==
    (last.op \in {"exchange", "oauth_exchange", "async_exchange"}
        /\ last.code = Str("")) =>
            (last.res.posts = 0 /\ last.res.out = "code_required")

\* The persisted record is past expires_at - 5 minutes.
Expired == Persisted.some /\ HasExpiry(Persisted.d)
               /\ now >= Expiry(Persisted.d) - FiveMinutes

\* C9: load_token_from_file (and aliexpress_oauth.load_token) returns a record
\* only if is_token_valid accepts it at that instant, and get_access_token a
\* token only then; for a missing, corrupt or expired file they return None.
C9_LoadOnlyIfValid ==
    /\ (last.op = "load_token_from_file" /\ last.got.some) =>
          (is_token_valid(last.got, now) /\ last.got = Persisted)
    /\ (last.op = "oauth_load_token" /\ last.got.some) =>
          (oauth_is_token_valid(last.got, now) /\ last.got = Persisted)
    /\ (last.op = "get_access_token" /\ last.val # Null) =>
          /\ TokenStorage_is_token_valid(Persisted, now)
          /\ last.val = Persisted.d["access_token"]
    /\ (~Persisted.some \/ Expired) =>
          /\ last.op \in {"load_token_from_file", "oauth_load_token"} => last.got = None
          /\ last.op = "get_access_token" => last.val = Null

\* C9's case: the file holds an expired record and the load has returned None.
C9_Witness ==
    /\ last.op = "load_token_from_file"
    /\ Expired
    /\ Truthy(Get(Persisted.d, "access_token"))
    /\ last.got = None

\* The storage is missing, unreadable or holds no JSON.
Unavailable == ~file.exists \/ ~file.readable \/ json_load_raises(file.text)

\* C10: with the storage missing, unreadable or not JSON, every read returns
\* "no token" and none raises.
C10_CorruptStorageReadsAbsent ==
    Unavailable =>
        /\ last.op \in {"load_token", "load_token_from_file", "oauth_load_token"} =>
              last.got = None
        /\ last.op = "get_access_token" => (~last.got.raised /\ last.val = Null)
        /\ last.op = "get_token_status" =>
              /\ ~last.got.raised
              /\ ~last.status.has_token
              /\ ~last.status.authenticated
              /\ last.status.message = "No token found"

\* C10's case: get_token_status has answered over a file that is no JSON.
C10_Witness ==
    /\ last.op = "get_token_status"
    /\ file.exists
    /\ file.readable
    /\ json_load_raises(file.text)
    /\ last.status.message = "No token found"

\* C11: for a response whose status is not 200, whatever its body (a JSON
\* object, a JSON array, text that is no JSON), exchange_code_for_token ends
\* with the HTTP error carrying that status.
C11_Non200IsHttpError ==
    (/\ last.op \in {"exchange", "oauth_exchange"}
     /\ last.resp.kind = "http"
     /\ last.resp.status # 200) =>
        (last.res.out = "http_error" /\ last.res.status = last.resp.status)

\* The outcomes that report success to the caller.
SuccessOuts == {"success", "returned_record"}

\* C12: an exchange or refresh reports success only if the new record was
\* written to the token file; when the write fails it reports a failure.
C12_SuccessOnlyIfWritten ==
    (last.op \in WriterOps /\ last.res.out \in SuccessOuts) =>
        /\ last.io = "ok"
        /\ Persisted.some
        /\ Persisted.d["access_token"] = last.res.ret["access_token"]
        /\ Persisted.d["obtained_at"] = last.res.ret["obtained_at"]

\* C13: after an exchange or refresh that reports success and has written the
\* file, the file holds exactly the new record: each field comes from the
\* response or from the clock, none from the record stored before.  When the
\* refresh response has no refresh_token the stored record has none, and a
\* following call of the refresh-token route finds none and sends no request.
C13_OverwriteInFull ==
    (last.op \in WriterOps /\ last.res.out \in SuccessOuts /\ last.io = "ok") =>
        LET body == last.resp.body
            P == Persisted
        IN  /\ P.some
            /\ last.op \in {"exchange", "oauth_exchange", "fastapi_exchange",
                           "handle_callback", "refresh", "refresh_route"} =>
                  /\ \A f \in FieldSet \ {"obtained_at", "expires_at"} : P.d[f] = body[f]
                  /\ P.d["obtained_at"] = isoformat(now)
                  /\ Has(P.d, "expires_at") <=> Has(body, "expires_in")
            /\ last.op \in {"refresh", "refresh_route"} => P.d = last.res.ret
            /\ last.op \in {"async_exchange", "callback"} =>
                  /\ P.d = last.res.ret
                  /\ \A f \in {"access_token", "refresh_token", "expires_in", "scope"} :
                        P.d[f] = Get(body, f)
                  /\ P.d["obtained_at"] = isoformat(localnow)
                  /\ \A f \in {"error", "error_description"} : ~Has(P.d, f)
            /\ (last.op \in {"refresh", "refresh_route"} /\ ~Has(body, "refresh_token")) =>
                  /\ ~Has(P.d, "refresh_token")
                  /\ \A resp \in HttpxResponses :
                        LET r == refresh_access_token(resp, file, utcnow, 0, "ok")
                        IN  /\ r.res.out = "no_refresh_token"
                            /\ r.res.posts = 0
                            /\ r.file = file

\* C13's case: the route has refreshed a record that held a refresh token with
\* a response that carries none, and the stored record has none.
C13_Witness ==
    /\ last.op = "refresh_route"
    /\ last.res.out = "success"
    /\ ~Has(last.resp.body, "refresh_token")
    /\ Persisted.some
    /\ Persisted.d["access_token"] = Str("tokB")
    /\ ~Has(Persisted.d, "refresh_token")

\* C14: when two writers have both saved and neither is writing, the file
\* holds, in full, the text one of the two wrote: never a mixture.
C14_LastWriteWins ==
    (\A w \in Writers : writer[w].pc = "idle" /\ writer[w].n > 0) =>
        /\ file.text \in {writer[w].text : w \in Writers}
        /\ ~json_load_raises(file.text)

\* The calls that only read the token file.
ReadOps == {"load_token", "load_token_from_file", "oauth_load_token",
            "get_access_token", "get_token_status"}

\* The stored record has both timestamps and a numeric expires_in.
Stamped ==
    /\ Persisted.some
    /\ HasExpiry(Persisted.d)
    /\ ~fromisoformat_raises(Persisted.d["obtained_at"])
    /\ Persisted.d["expires_in"].t = "int"

\* expires_at - obtained_at - expires_in of the stored record.
Excess ==
    Expiry(Persisted.d) - fromisoformat(Persisted.d["obtained_at"])
        - Persisted.d["expires_in"].n

\* C15 as stated: every record stored with an expires_at has
\* expires_at = obtained_at + expires_in exactly.
C15_ExpiresAtExact ==
    (Persisted.some /\ HasExpiry(Persisted.d)) => (Stamped /\ Excess = 0)

\* C15, amended: every record stored with an expires_at, by whichever path, has
\* expires_at = obtained_at + expires_in plus the time that passed between the
\* two clock reads of the call that stored it; and no read changes the file.
C15_ExpiresAtWithinDrift ==
    /\ []((Persisted.some /\ HasExpiry(Persisted.d)) => (Stamped /\ Excess \in Drift))
    /\ [][last'.op \in ReadOps => file' = file]_vars

\* C15's case: a record is stored whose two clock reads were a second apart.
C15_Witness ==
    /\ last.op \in WriterOps
    /\ last.res.out \in SuccessOuts
    /\ Stamped
    /\ Excess = 1

\* C16: refresh_token called with an empty refresh token (None or "") raises
\* ValueError("Refresh token is required"), sends no request and leaves the
\* token file as it was.
C16_EmptyRefreshTokenRejected ==
    [][(last'.op = "refresh" /\ last' # last /\ ~Truthy(last'.code)) =>
          /\ last'.res.out = "value_error"
          /\ last'.res.raised
          /\ last'.res.posts = 0
          /\ last'.resp = Unasked
          /\ file' = file]_vars

\* C16's case: refresh_token("") has raised over a stored record.
C16_Witness ==
    /\ last.op = "refresh"
    /\ last.code = Str("")
    /\ last.res.out = "value_error"
    /\ last.res.posts = 0
    /\ Persisted.some
    /\ Truthy(Get(Persisted.d, "refresh_token"))

\* The exchanges that tell a rejection from a malformed answer.
SortingExchanges == {"exchange", "oauth_exchange", "fastapi_exchange"}

\* C17: on a 200 whose JSON body has no access_token, the exchange (of auth.py,
\* aliexpress_oauth.py and the exchange_token route) fails with the OAuth-error
\* outcome carrying error_description, else error, when the body has an error
\* member, and with the no-access-token outcome when it has none; the token
\* file stays as it was in both cases.
C17_RejectedOrMalformed ==
    [][(/\ last'.op \in SortingExchanges
        /\ last' # last
        /\ Truthy(last'.code)
        /\ last'.resp.kind = "http"
        /\ last'.resp.status = 200
        /\ IsJson(last'.resp)
        /\ ~Grants(last'.resp)) =>
            LET body == last'.resp.body
                res == last'.res
            IN  /\ file' = file
                /\ res.posts = 1
                /\ res.ret = EmptyDict
                /\ IF last'.resp.json = "object" /\ Has(body, "error")
                   THEN /\ res.out = "oauth_error"
                        /\ res.detail = IF Has(body, "error_description")
                                         THEN body["error_description"]
                                         ELSE body["error"]
                        /\ last'.op = "fastapi_exchange" => res.status = 400
                   ELSE /\ res.out = "no_access_token"
                        /\ res.detail = Absent
                        /\ last'.op = "fastapi_exchange" => res.status = 500]_vars

\* C17's case: the route has answered "OAuth error: code expired" and the
\* record stored before is still there.
C17_Witness ==
    /\ last.op = "fastapi_exchange"
    /\ last.res.out = "oauth_error"
    /\ last.res.detail = Str("code expired")
    /\ Has(last.resp.body, "error")
    /\ Persisted.some
    /\ Truthy(Get(Persisted.d, "access_token"))

\* What the caller of a failed call can tell it by.
Failure(res) == [out |-> res.out, status |-> res.status, detail |-> res.detail]

\* What refresh_token raises on a 200 whose body is the empty object.
MalformedRefresh ==
    Failure(refresh_token(Str("r1"), Http(200, "object", EmptyDict), file, utcnow, 0,
                          "ok").res)

\* C18: refresh_token tells its failures apart as the exchange does: a timeout,
\* another transport failure, a non-200 status (with the status, whatever the
\* body), a rejection by the provider and a malformed 200 body each end in an
\* outcome of their own.
C18_RefreshTaxonomy ==
    (last.op = "refresh" /\ Truthy(last.code)) =>
        LET resp == last.resp
            res == last.res
        IN  /\ resp.kind = "timeout" => res.out = "timed_out"
            /\ resp.kind = "neterr" => res.out = "request_failed"
            /\ (resp.kind = "http" /\ resp.status # 200) =>
                  (res.out = "refresh_failed_status" /\ res.status = resp.status)
            /\ (resp.kind = "http" /\ resp.status = 200 /\ ~IsJson(resp)) =>
                  res.out = "invalid_response"
            /\ (resp.kind = "http" /\ resp.status = 200 /\ resp.json = "object"
                    /\ ~Has(resp.body, "access_token") /\ Has(resp.body, "error")) =>
                  (res.out = "refresh_failed" /\ Failure(res) # MalformedRefresh)

\* C19: in the synchronous exchanges, the exchange_token route and the async
\* exchange, a timeout of the request ends in the timeout outcome and any other
\* transport failure in the request-failed outcome.
C19_TimeoutAndNetworkApart ==
    (last.op \in {"exchange", "oauth_exchange", "fastapi_exchange", "async_exchange"}
        /\ last.res.posts > 0) =>
            /\ last.resp.kind = "timeout" => last.res.out = "timeout"
            /\ last.resp.kind = "neterr" => last.res.out = "request_failed"
            /\ last.res.out = "timeout" => last.resp.kind = "timeout"

\* C20: a call of an exchange, of refresh_token, of the refresh route or of a
\* callback handler sends at most one POST to the token endpoint, and exactly
\* one when it is given a code (or refresh token) that is not empty, whether
\* the request succeeds or fails; none reports success without a request.
C20_OnePostPerCall ==
    (last.op \in WriterOps) =>
        /\ last.res.posts \in {0, 1}
        /\ (last.op # "refresh_route" /\ Truthy(last.code)) => last.res.posts = 1
        /\ last.res.posts = 0 => last.res.out \notin SuccessOuts

\* C20's case: handle_callback was given a code, the request timed out, and
\* one request was sent.
C20_Witness ==
    /\ last.op = "handle_callback"
    /\ last.code = Str("code1")
    /\ last.resp.kind = "timeout"
    /\ last.res.out = "token_exchange_failed"
    /\ last.res.posts = 1

\* The calls that the program makes to read the stored record or to use it.
ReadOnlyOps ==
    {"is_token_valid", "load_token", "load_token_from_file", "get_access_token",
     "get_token_status", "route_token_status", "api_call", "test_connection"}

\* C21: is_token_valid, load_token, load_token_from_file, get_access_token,
\* get_token_status and make_aliexpress_api_call (and the routes built on them)
\* leave the token file as it was, whether it holds a valid record, an expired
\* one, text that is no JSON, or does not exist.
C21_ReadsLeaveRecord ==
    [][last'.op \in ReadOnlyOps => file' = file]_vars

\* C21's case: the connection test has found an expired record, and the file
\* still holds it.
C21_Witness ==
    /\ last.op = "test_connection"
    /\ last.res.out = "not_authenticated"
    /\ Expired

\* A credential that a request or URL should not carry: None, or the value
\* built into the module for a variable that is not set.
Unconfigured(payload) ==
    \E k \in {"client_id", "client_secret", "redirect_uri"} :
        payload[k] = Null \/ payload[k] = BuiltIn[k]

\* C22: when the app key, the app secret or the callback URL is not set, URL
\* building and exchange fail with a configuration error, and no request that
\* carries a missing or built-in credential is sent to the token endpoint.
C22_MissingConfigurationIsError ==
    /\ (last.op = "authorization_url"
            /\ (env["ALIEXPRESS_APP_KEY"] = Absent
                    \/ env["ALIEXPRESS_CALLBACK_URL"] = Absent))
          => last.res.out = "configuration_error"
    /\ (last.op \in {"exchange", "standalone_callback"} /\ Truthy(last.code)
            /\ env # Configured)
          => (last.res.out = "configuration_error" /\ last.res.posts = 0)
    /\ last.res.posts > 0 => ~Unconfigured(last.sent)

\* The callback handlers.
CallbackOps == {"callback", "standalone_callback", "routes_callback", "fastapi_callback"}

\* C27: a callback that carries an error parameter sends no token-exchange
\* request and stores no record, even if it carries a code as well, in every
\* callback handler.
C27_ErrorCallbackSendsNothing ==
    [][(last'.op \in CallbackOps /\ Truthy(last'.error))
          => (/\ last'.res.posts = 0
              /\ file' = file
              /\ last'.res.out # "saved")]_vars

\* C23: on a body that is no JSON the exchange fails with the invalid-JSON
\* outcome, whose message carries at most the first 200 characters of the raw
\* body, and a raw body longer than that is never written to the log in full.
C23_RawBodyNotLogged ==
    last.res.out = "invalid_json" =>
        /\ last.res.detail.n <= MessageLimit
        /\ last.res.detail.n <= last.log.body
        /\ last.log.body > MessageLimit => last.log.logged < last.log.body

\* The record a file holds: None when it is missing, unreadable or no JSON.
RecordIn(f) ==
    IF f.exists /\ f.readable /\ ~json_load_raises(f.text)
    THEN Some(json_load(f.text))
    ELSE None

\* C24: for the same code, the same answer of the endpoint and the same
\* instant, the synchronous and the async exchange succeed or fail together,
\* store a record in the same cases, and the records they store get the same
\* is_token_valid verdict at every later time, whatever the host's offset
\* from UTC.
C24_SyncAsyncAgree ==
    \A code \in Codes, resp \in Responses :
        \A delta \in DriftFor(resp), io \in IoFor(resp) :
            LET s == exchange_code_for_token(code, resp, file, utcnow, delta, io)
                a == async_exchange_code_for_token(code, resp, file, localnow, delta, io)
            IN  /\ (s.res.out \in SuccessOuts) <=> (a.res.out \in SuccessOuts)
                /\ ~file.exists => ((s.file # file) <=> (a.file # file))
                /\ (s.file # file /\ a.file # file) =>
                      \A t \in ClockTimes :
                          t >= now => (is_token_valid(RecordIn(s.file), t)
                                          <=> is_token_valid(RecordIn(a.file), t))

\* C25: make_aliexpress_api_call called without a token sends a request only
\* if the token file holds a record that is_token_valid accepts; otherwise it
\* raises "No valid access token available" and sends nothing.  The connection
\* test calls the API only when such a record is stored.
C25_ApiCallNeedsValidToken ==
    /\ (last.op = "api_call" /\ ~Truthy(last.code)) =>
          IF is_token_valid(Persisted, now)
          THEN last.res.posts = 1
          ELSE last.res.posts = 0 /\ last.res.out = "no_valid_token" /\ last.res.raised
    /\ (last.op = "test_connection" /\ ~is_token_valid(Persisted, now)) =>
          (last.res.posts = 0 /\ last.res.out \in {"not_authenticated"})

\* C25's case: the token file holds an expired record and the API call, made
\* without a token, has raised.
C25_Witness ==
    /\ last.op = "api_call"
    /\ last.code = Null
    /\ Expired
    /\ Truthy(Get(Persisted.d, "access_token"))
    /\ last.res.out = "no_valid_token"

\* C26: when the token file holds a record with an access token that has
\* expired, the token status says that a token exists and that it is not
\* authenticated, with "Token is expired or invalid", and not "No token
\* found"; in auth.get_token_status and in the /token/status route.
C26_ExpiredIsNotAbsent ==
    (last.op \in {"get_token_status", "route_token_status"}
        /\ Expired
        /\ Truthy(Get(Persisted.d, "access_token"))) =>
            /\ last.status.has_token
            /\ ~last.status.authenticated
            /\ last.status.message = "Token is expired or invalid"

\* The step is the return of an exchange or refresh that succeeded.
Renewed == last'.op \in WriterOps /\ last'.res.out \in SuccessOuts

\* C28: the clock never goes back, and a record that is_token_valid rejects is
\* rejected after every step that is no successful exchange or refresh; so
\* once is_token_valid has returned false it returns false at every later
\* time until an exchange or refresh succeeds.
C28_ValidityMonotone ==
    [][/\ now' >= now
       /\ (~is_token_valid(Persisted, now) /\ ~Renewed)
             => ~is_token_valid(Persisted', now')
       /\ (~TokenStorage_is_token_valid(Persisted, now) /\ ~Renewed)
             => ~TokenStorage_is_token_valid(Persisted', now')]_vars

\* C28's case: is_token_valid has returned false for a record that expired
\* more than a minute ago.
C28_Witness ==
    /\ last.op = "is_token_valid"
    /\ ~last.status.authenticated
    /\ Persisted.some
    /\ HasExpiry(Persisted.d)
    /\ Truthy(Get(Persisted.d, "access_token"))
    /\ now >= Expiry(Persisted.d) - FiveMinutes + SecondsPerMinute
    /\ now < Expiry(Persisted.d)

\* The installs that install_dependencies attempted for a scraper.
Runs(name) == manager.call.runs[name]

\* C29: install_dependencies reports "No dependency files found" for a
\* scraper only if its directory holds none of requirements.txt,
\* pyproject.toml and setup.py; when the last install it attempted for a
\* scraper raised, the entry of that scraper is that error with its dependency
\* file; and at most one install per scraper runs to its end.
C29_InstallReport ==
    manager.call.op = "install_dependencies" =>
        \A name \in ScraperNames :
            LET entry == manager.call.installs[name]
            IN  /\ entry.error = "no_dependency_files" => manager.deps[name] = {}
                /\ (Runs(name) # << >> /\ Runs(name)[Len(Runs(name))].outcome = "raised")
                      => /\ entry.error = "raised"
                         /\ entry.dependency_file
                                = Runs(name)[Len(Runs(name))].dependency_file
                /\ Cardinality({i \in 1..Len(Runs(name)) :
                                    Runs(name)[i].outcome # "raised"}) <= 1

\* The batch the manager was last given, and the positions in it.
Batch == manager.call.configs

Positions == 1..Len(Batch)

\* The i-th configuration names a scraper of the manager whose path exists.
Runnable(i) ==
    /\ Truthy(Batch[i].name)
    /\ Batch[i].name.s \in ScraperNames \cap manager.paths

\* The last position that carries the name k.
LastOf(k) ==
    CHOOSE i \in Positions :
        /\ Batch[i].name = Str(k)
        /\ \A j \in Positions : j > i => Batch[j].name # Str(k)

\* C30: batch_execute runs the configurations one at a time in the order of
\* the list: a process is launched for exactly the configurations that name an
\* available scraper, in list order, whatever the earlier ones ended with
\* (none for a configuration without a name, none for an unknown or
\* unavailable scraper).  The result has one entry per distinct name, holding
\* the outcome of the last configuration with that name.
C30_BatchInOrder ==
    manager.call.op = "batch_execute" =>
        LET launches == manager.call.launches
            results == manager.call.results
        IN  /\ \A j \in 1..(Len(launches) - 1) : launches[j] < launches[j + 1]
            /\ {launches[j] : j \in 1..Len(launches)} = {i \in Positions : Runnable(i)}
            /\ \A k \in ResultKeys :
                  IF \E i \in Positions : Batch[i].name = Str(k)
                  THEN LET i == LastOf(k)
                       IN  /\ results[k] # NoEntry
                           /\ results[k].success
                                 <=> (Runnable(i) /\ Batch[i].outcome = "zero")
                           /\ results[k].error = "not_available" <=> ~Runnable(i)
                           /\ results[k].error = "timed_out"
                                 <=> (Runnable(i) /\ Batch[i].outcome = "timeout")
                           /\ results[k].error = "raised"
                                 <=> (Runnable(i) /\ Batch[i].outcome = "raised")
                  ELSE results[k] = NoEntry

\* C30's case: a batch of three in which jobfunnel times out, a configuration
\* has no name and jobfunnel then runs to its end, on a disk without paper.
C30_Witness ==
    /\ manager.call.op = "batch_execute"
    /\ Len(Batch) = 3
    /\ Batch[1] = [name |-> Str("jobfunnel"), outcome |-> "timeout"]
    /\ Batch[2].name = Null
    /\ Batch[3] = [name |-> Str("jobfunnel"), outcome |-> "zero"]
    /\ manager.call.launches = << 1, 3 >>
    /\ manager.call.results["jobfunnel"].success
    /\ "paper" \notin manager.paths

====
